---- MODULE Spec2Model ----
(***************************************************************************)
(* clonechat: replication of the messages of one Telegram chat (the input  *)
(* target) into another chat (the output target), as implemented by        *)
(* CloneChat (src/clonechat.py) and TgChat (src/utils/telegram/targets.py).*)
(*                                                                         *)
(* The state is what survives a process (the sqlite table `messages`, the  *)
(* scratch directories under chats/<output>/, the destination chat) plus   *)
(* the position of the one running process.  A process may be killed at    *)
(* any point and started again.                                            *)
(***************************************************************************)
EXTENDS Integers, Sequences, FiniteSets, TLC

\* ------------------------------------------------------------------ bounds
\* Number of messages in the source chat (their ids are 1..MaxMsg).
MaxMsg == 3
\* Number of times the program is started.
MaxRuns == 2
\* Number of times one upload may raise ValueError in a row.
MaxRetries == 1
\* Number of times an archive is opened.
MaxOpens == 4
\* Number of chats an archive may be said to represent (their ids: 1..MaxChats).
MaxChats == 2

\* ------------------------------------------------------------ identifiers
\* The chat ids given as --input and --output.
InputId == "in"
OutputId == "out"

MsgIds == 1..MaxMsg

\* pyrogram's MessageMediaType values used here; "text" is a message with no
\* media, "service" a service message (message.service is set).
MediaKinds == {"photo", "sticker"}
Kinds == MediaKinds \cup {"text", "service"}

\* Exceptions a client call may raise.
Errors == {"FloodWait", "Forbidden", "RPCError", "ValueError"}

VARIABLES
    source,                \* the source chat: message id -> kind
    has_protected_content, \* the source chat's has_protected_content
    extra_configs,         \* the settings handed to CloneChat
    messages,              \* rows of the sqlite table `messages`, in rowid order
    tie_order,             \* which of several rows with equal added_at sqlite
                           \* puts first under "order by added_at desc"
    now,                   \* sqlite's current_timestamp (whole seconds)
    dirs,                  \* message ids m whose chats/<output>/<m> exists
    out_chat,              \* the destination chat: source ids, in arrival order
    pc,                    \* where the process is
    runNo,                 \* how many times the program was started
    forward_messages,      \* TgChat.forward_messages of the input target
    last_sent_message_id,  \* the resume point computed by iter_messages
    gen,                   \* what messages_generator has still to yield
    cur,                   \* the message send_message is working on (0: none)
    depth,                 \* nested re-invocations of send_message
    err,                   \* the exception that ended the run, and where
    lost,                  \* the message that the crash ending the previous
                           \* run left sent and without any row, until this
                           \* run hands it to send_message (0: none)
    inserted,              \* input_message_id of the rows this run inserted
    after_complete,        \* this run follows a run that finished its sequence
                           \* with every non-service message recorded
    log,                   \* the last call of logging.warning or
                           \* logging.error, and the message being sent
    skipped,               \* the last message that iter_messages passed over
                           \* or that send_message returned for without a
                           \* send (0: none)
    meta,                  \* rows of the table `meta` of an archive (DumpChat)
    chat_id,               \* DumpChat.chat_id as the last opening set it
    dump_err               \* the exception that ended the last opening

vars == <<source, has_protected_content, extra_configs, messages, tie_order,
          now, dirs,
          out_chat, pc, runNo, forward_messages, last_sent_message_id, gen,
          cur, depth, err, lost, inserted, after_complete, log, skipped,
          meta, chat_id, dump_err>>

\* The state of an archive, which a run between two chats leaves alone.
dump_vars == <<meta, chat_id, dump_err>>

\* -------------------------------------------------------------- utilities
Range(s) == {s[i] : i \in DOMAIN s}

RECURSIVE Ascending(_, _)
\* The ids of S in ascending order, those above lo.
Ascending(S, lo) ==
    LET T == {x \in S : x > lo}
    IN  IF T = {} THEN <<>>
        ELSE LET m == CHOOSE x \in T : \A y \in T : x <= y
             IN  <<m>> \o Ascending(S, m)

Reverse(s) == [i \in 1..Len(s) |-> s[Len(s) + 1 - i]]

StrictlyIncreasing(s) == \A i, j \in DOMAIN s : i < j => s[i] < s[j]
StrictlyDecreasing(s) == \A i, j \in DOMAIN s : i < j => s[i] > s[j]

\* Rows recording that source message m went from the input to the output.
RowsOf(m) == {i \in DOMAIN messages :
                 /\ messages[i].input_chat_id = InputId
                 /\ messages[i].output_chat_id = OutputId
                 /\ messages[i].input_message_id = m}
HasRecord(m) == RowsOf(m) # {}

\* ------------------------------------------------------------------ Init
\* Settings: every flag takes both values, on the forward path and on the
\* download-and-upload path.
Configs ==
    { [forward_messages |-> FALSE, reverse_messages |-> FALSE,
       send_text_messages |-> FALSE, media_types |-> MediaKinds],
      [forward_messages |-> TRUE, reverse_messages |-> TRUE,
       send_text_messages |-> TRUE, media_types |-> MediaKinds],
      [forward_messages |-> FALSE, reverse_messages |-> TRUE,
       send_text_messages |-> TRUE, media_types |-> {"photo"}],
      [forward_messages |-> TRUE, reverse_messages |-> FALSE,
       send_text_messages |-> FALSE, media_types |-> {"photo"}] }

\* Source chats: the four kinds in a fixed cycle, started at each of them, so
\* that every position of the history takes every kind.
KindCycle == <<"photo", "text", "sticker", "service">>
Sources ==
    { [m \in MsgIds |-> KindCycle[((m + k) % Len(KindCycle)) + 1]] :
          k \in 1..Len(KindCycle) }

\* No exception; and exception e raised by the call the process was at
\* ("create": TgChat.create).
NoError == [type |-> "none", during |-> "none"]
Raised(e) == [type |-> e, during |-> pc]

\* A chat id as Python holds it (an int) and as sqlite gives it back from the
\* column `value text` of meta (a str of its digits).
IntId(n) == [type |-> "int", id |-> n]
StrId(v) == [type |-> "str", id |-> v.id]

\* Nothing logged yet; and a call of logging.warning or logging.error made
\* while message m was being sent (0: at start-up).
NoLog == [level |-> "none", about |-> 0]
Logged(l, m) == [level |-> l, about |-> m]

Init ==
    /\ source \in Sources
    /\ has_protected_content \in BOOLEAN
    /\ extra_configs \in Configs
    /\ messages = <<>>
    /\ tie_order \in {"first", "last"}
    /\ now = 0
    /\ dirs = {}
    /\ out_chat = <<>>
    /\ pc = "idle"
    /\ runNo = 0
    /\ forward_messages = FALSE
    /\ last_sent_message_id = 0
    /\ gen = <<>>
    /\ cur = 0
    /\ depth = 0
    /\ err = NoError
    /\ lost = 0
    /\ inserted = <<>>
    /\ after_complete = FALSE
    /\ log = NoLog
    /\ skipped = 0
    /\ meta = <<>>
    /\ chat_id = IntId(0)
    /\ dump_err = "none"

\* ------------------------------------------------------- the remote client
\* client.get_chat_history(chat, offset_id): the messages of the source chat
\* after offset_id, oldest first (the client's contract: history(conversation,
\* afterId), "fixed ascending-from-cursor").
HistoryAfter(offset_id) == Ascending(MsgIds, offset_id)

\* ------------------------------------------------------ TgChat, as a source
\* "select input_message_id from messages where input_chat_id = ?
\*  order by added_at desc limit 1".  added_at has whole seconds, and SQL
\* leaves the order of rows with equal added_at open: an engine that sorts a
\* forward scan of the table returns the first of them (sqlite 3.40 does), one
\* that walks backward returns the last.  Which, is a property of the build.
LastRows ==
    {i \in DOMAIN messages :
        /\ messages[i].input_chat_id = InputId
        /\ \A j \in DOMAIN messages :
              messages[j].input_chat_id = InputId
                  => messages[j].added_at <= messages[i].added_at}

\* The value of last_sent_message_id: 0 when there is no row.
ResumePoint ==
    IF LastRows = {} THEN 0
    ELSE LET first == CHOOSE i \in LastRows : \A j \in LastRows : i <= j
             last == CHOOSE i \in LastRows : \A j \in LastRows : j <= i
         IN  messages[IF tie_order = "first" THEN first ELSE last]
                 .input_message_id

\* A generator that yields the newest message first.
messages_generator_reversed(offset_id) == Reverse(HistoryAfter(offset_id))

\* A generator that starts one message too late.
messages_generator_skip(offset_id) == HistoryAfter(offset_id + 1)

\* messages_generator of iter_messages: the history after the resume point,
\* as the client yields it (reverse_messages is not consulted).
messages_generator(offset_id) == HistoryAfter(offset_id)

\* A TgChat that keeps the flag whatever the chat allows.
can_forward_flag(flag, protected) == flag

\* TgChat.__init__: forwarding is kept only if the chat allows it.
can_forward(flag, protected) == flag /\ ~protected

\* ----------------------------------------------------- TgChat, as a sink
\* An insert that keeps one row per source message: "insert or replace" on
\* the pair of chat and message.
insert_or_replace(rows, m, out_id, t) ==
    Append(SelectSeq(rows, LAMBDA r : r.input_message_id # m),
           [input_chat_id |-> InputId, input_message_id |-> m,
            output_chat_id |-> OutputId, output_message_id |-> out_id,
            added_at |-> t])

\* __insert_sent_message: one more row, stamped with current_timestamp.
insert_sent_message(rows, m, out_id, t) ==
    Append(rows, [input_chat_id |-> InputId, input_message_id |-> m,
                  output_chat_id |-> OutputId, output_message_id |-> out_id,
                  added_at |-> t])

\* Every non-service message of the source has a row.
AllRecorded == \A m \in MsgIds : source[m] # "service" => HasRecord(m)

Stopped == {"idle", "done", "aborted", "crashed"}
\* send_message has been entered for cur and has not returned.
InDelivery == {"copy", "copied", "download", "upload", "sent_media",
               "unsent_media", "sendtext", "sent_text"}

\* The process is gone: nothing of its memory is left.
Stop(p, e) ==
    /\ pc' = p
    /\ err' = e
    /\ lost' = IF /\ p = "crashed"
                  /\ pc \in {"copied", "sent_media", "sent_text"}
                  /\ ~HasRecord(cur)
               THEN cur ELSE 0
    /\ forward_messages' = FALSE
    /\ last_sent_message_id' = 0
    /\ gen' = <<>>
    /\ cur' = 0
    /\ depth' = 0
    /\ inserted' = <<>>
    /\ after_complete' = FALSE

\* An exception leaves send_message, __clone_messages, clone and main.
Raise(e) ==
    /\ Stop("aborted", Raised(e))
    /\ UNCHANGED <<skipped, log, dump_vars, source, has_protected_content, extra_configs,
                   tie_order,
                   messages,
                   now, dirs, out_chat, runNo>>

\* A return from a nested send_message after which the call that made it
\* goes on with its own removal and insert.
Return_unwind ==
    IF depth > 0
    THEN /\ pc' = "sent_media"
         /\ cur' = cur
         /\ depth' = depth - 1
    ELSE /\ pc' = "iter"
         /\ cur' = 0
         /\ depth' = 0

\* send_message returns; __clone_messages asks iter_messages for the next.
Return ==
    /\ pc' = "iter"
    /\ cur' = 0
    /\ depth' = 0

\* The clock of the store: a second may or may not have passed.
Clock == {now, now + 1}

\* A start that notes the ChatPreview and goes on to the loop all the same.
StartRun_lenient ==
    /\ pc \in Stopped
    /\ runNo < MaxRuns
    /\ runNo' = runNo + 1
    /\ \E member \in BOOLEAN :
          /\ pc' = "start"
          /\ err' = IF member THEN NoError
                    ELSE [type |-> "ValueError", during |-> "create"]
          /\ lost' = lost
          /\ forward_messages' =
                 can_forward(extra_configs.forward_messages,
                             has_protected_content)
          /\ after_complete' = (pc = "done" /\ AllRecorded)
          /\ log' = IF extra_configs.forward_messages /\ has_protected_content
                     THEN Logged("WARNING", 0) ELSE log
          /\ UNCHANGED <<last_sent_message_id, gen, cur, depth, inserted>>
    /\ UNCHANGED <<skipped, dump_vars, source, has_protected_content, extra_configs,
                   tie_order,
                   messages,
                   now, dirs, out_chat>>

\* main: CloneChat(...).clone(), up to the call of __clone_messages.
\* TgChat.create raises ValueError when get_chat returns a ChatPreview.
StartRun ==
    /\ pc \in Stopped
    /\ runNo < MaxRuns
    /\ runNo' = runNo + 1
    /\ \E member \in BOOLEAN :
          IF member
          THEN /\ pc' = "start"
               /\ err' = NoError
               /\ lost' = lost
               /\ forward_messages' =
                      can_forward(extra_configs.forward_messages,
                                  has_protected_content)
               /\ after_complete' = (pc = "done" /\ AllRecorded)
               /\ log' = IF extra_configs.forward_messages /\ has_protected_content
                          THEN Logged("WARNING", 0) ELSE log
               /\ UNCHANGED <<last_sent_message_id, gen, cur, depth, inserted>>
          ELSE /\ Stop("aborted", [type |-> "ValueError", during |-> "create"])
               /\ log' = log
    /\ UNCHANGED <<skipped, dump_vars, source, has_protected_content, extra_configs,
                   tie_order,
                   messages,
                   now, dirs, out_chat>>

\* iter_messages, up to the loop: the resume point and the generator.
IterStart ==
    /\ pc = "start"
    /\ last_sent_message_id' = ResumePoint
    /\ gen' = messages_generator(ResumePoint)
    /\ pc' = "iter"
    /\ UNCHANGED <<skipped, log, dump_vars, source, has_protected_content, extra_configs,
                   tie_order,
                   messages,
                   now, dirs, out_chat, runNo, forward_messages, cur, depth,
                   err, lost, inserted, after_complete>>

\* A send_message that never takes the copy branch.
SendEntry_recreate(m) ==
    /\ dirs' = dirs \cup {m}
    /\ pc' = IF source[m] \in MediaKinds THEN "download" ELSE "sendtext"

\* The start of send_message for message m, up to its first await: a message
\* that can be forwarded goes to copy_message; otherwise the scratch
\* directory is made and the message goes to download_media or, without
\* media, to client.send_message.  (A message that iter_messages yields
\* always carries its pyrogram Message, so "if not tg_message" never returns.)
SendEntry(m) ==
    IF forward_messages
    THEN /\ pc' = "copy"
         /\ dirs' = dirs
    ELSE /\ dirs' = dirs \cup {m}
         /\ pc' = IF source[m] \in MediaKinds THEN "download" ELSE "sendtext"

\* A loop that takes the next message without waiting for send_message.
IterNext_eager ==
    /\ pc \in {"iter", "copy", "download", "upload", "sendtext"}
    /\ gen # <<>>
    /\ gen' = Tail(gen)
    /\ IF source[Head(gen)] = "service"
       THEN /\ skipped' = Head(gen)
            /\ UNCHANGED <<pc, cur, dirs, lost>>
       ELSE /\ cur' = Head(gen)
            /\ lost' = IF lost = Head(gen) THEN 0 ELSE lost
            /\ skipped' = skipped
            /\ SendEntry(Head(gen))
    /\ UNCHANGED <<log, dump_vars, source, has_protected_content, extra_configs,
                   tie_order,
                   messages, now, out_chat, runNo, forward_messages,
                   last_sent_message_id, depth, err, inserted, after_complete>>

\* One turn of "async for message in messages_generator": a service message
\* is passed over, any other is yielded to __clone_messages, which calls
\* send_message for it.
IterNext ==
    /\ pc = "iter"
    /\ gen # <<>>
    /\ gen' = Tail(gen)
    /\ IF source[Head(gen)] = "service"
       THEN /\ skipped' = Head(gen)
            /\ UNCHANGED <<pc, cur, dirs, lost>>
       ELSE /\ cur' = Head(gen)
            /\ lost' = IF lost = Head(gen) THEN 0 ELSE lost
            /\ skipped' = skipped
            /\ SendEntry(Head(gen))
    /\ UNCHANGED <<log, dump_vars, source, has_protected_content, extra_configs,
                   tie_order,
                   messages, now, out_chat, runNo, forward_messages,
                   last_sent_message_id, depth, err, inserted, after_complete>>

\* The generator is exhausted: __clone_messages, clone and main return.
IterEnd ==
    /\ pc = "iter"
    /\ gen = <<>>
    /\ Stop("done", NoError)
    /\ UNCHANGED <<skipped, log, dump_vars, source, has_protected_content, extra_configs,
                   tie_order,
                   messages,
                   now, dirs, out_chat, runNo>>

\* Fetching the next page of the history raises.
IterRaise ==
    /\ pc = "iter"
    /\ gen # <<>>
    /\ \E e \in Errors : Raise(e)

\* await client.copy_message(...): a Message, something else, or an exception.
CopyMessage ==
    /\ pc = "copy"
    /\ \/ /\ out_chat' = Append(out_chat, cur)
          /\ pc' = "copied"
          /\ UNCHANGED <<cur, depth, skipped>>
       \/ /\ Return
          /\ skipped' = cur
          /\ UNCHANGED out_chat
    /\ UNCHANGED <<log, dump_vars, source, has_protected_content, extra_configs,
                   tie_order,
                   messages,
                   now, dirs, runNo, forward_messages, last_sent_message_id,
                   gen, err, lost, inserted, after_complete>>

CopyRaise ==
    /\ pc = "copy"
    /\ \E e \in Errors : Raise(e)

\* A send_message that returns after the send without inserting the row.
Record_none ==
    /\ UNCHANGED <<now, messages, inserted>>
    /\ Return

\* The row of a sent message is inserted and committed; send_message returns.
Record ==
    /\ \E t \in Clock :
          /\ now' = t
          /\ messages' = insert_sent_message(messages, cur, Len(out_chat), t)
    /\ inserted' = Append(inserted, cur)
    /\ Return

\* copy_message returned a Message: its row is inserted.
RecordCopied ==
    /\ pc = "copied"
    /\ Record
    /\ UNCHANGED <<skipped, log, dump_vars, source, has_protected_content, extra_configs,
                   tie_order,
                   dirs,
                   out_chat, runNo, forward_messages, last_sent_message_id,
                   gen, err, lost, after_complete>>

\* A download_media whose failure is passed over without a word.
DownloadMedia_silent ==
    /\ pc = "download"
    /\ \/ /\ pc' = "upload"
          /\ UNCHANGED <<cur, depth, skipped>>
       \/ /\ skipped' = cur
          /\ Return
    /\ UNCHANGED <<log, dump_vars, source, has_protected_content, extra_configs,
                   tie_order,
                   messages,
                   now, dirs, out_chat, runNo, forward_messages,
                   last_sent_message_id, gen, err, lost, inserted, after_complete>>

\* await client.download_media(...): a path, or None ("Skipping.").
DownloadMedia ==
    /\ pc = "download"
    /\ \/ /\ pc' = "upload"
          /\ UNCHANGED <<cur, depth, log, skipped>>
       \/ /\ log' = Logged("ERROR", cur)
          /\ skipped' = cur
          /\ Return
    /\ UNCHANGED <<dump_vars, source, has_protected_content, extra_configs,
                   tie_order,
                   messages,
                   now, dirs, out_chat, runNo, forward_messages,
                   last_sent_message_id, gen, err, lost, inserted, after_complete>>

DownloadRaise ==
    /\ pc = "download"
    /\ \E e \in Errors : Raise(e)

\* await send_<media_type>(...) returned: a Message (sent) or None.
SendMedia ==
    /\ pc = "upload"
    /\ \/ /\ out_chat' = Append(out_chat, cur)
          /\ pc' = "sent_media"
       \/ /\ out_chat' = out_chat
          /\ pc' = "unsent_media"
    /\ UNCHANGED <<skipped, log, dump_vars, source, has_protected_content, extra_configs,
                   tie_order,
                   messages,
                   now, dirs, runNo, forward_messages, last_sent_message_id,
                   gen, cur, depth, err, lost, inserted, after_complete>>

\* send_<media_type> raised ValueError: send_message is called again for the
\* same message, and its result returned.
SendMediaValueError ==
    /\ pc = "upload"
    /\ depth < MaxRetries
    /\ depth' = depth + 1
    /\ log' = Logged("WARNING", cur)
    /\ SendEntry(cur)
    /\ UNCHANGED <<skipped, dump_vars, source, has_protected_content, extra_configs,
                   tie_order,
                   messages,
                   now, out_chat, runNo, forward_messages,
                   last_sent_message_id, gen, cur, err, lost, inserted,
                   after_complete>>

SendMediaRaise ==
    /\ pc = "upload"
    /\ \E e \in Errors \ {"ValueError"} : Raise(e)

\* After the upload: the files and the directory are removed, and the row of
\* the sent message is inserted.
CleanupAndRecord ==
    /\ pc = "sent_media"
    /\ dirs' = dirs \ {cur}
    /\ Record
    /\ UNCHANGED <<skipped, log, dump_vars, source, has_protected_content, extra_configs,
                   tie_order,
                   out_chat,
                   runNo, forward_messages, last_sent_message_id, gen, err,
                   lost, after_complete>>

\* After an upload that returned None: the same removal, and no row.
CleanupUnsent ==
    /\ pc = "unsent_media"
    /\ dirs' = dirs \ {cur}
    /\ skipped' = cur
    /\ Return
    /\ UNCHANGED <<log, dump_vars, source, has_protected_content, extra_configs,
                   tie_order,
                   messages,
                   now, out_chat, runNo, forward_messages,
                   last_sent_message_id, gen, err, lost, inserted, after_complete>>

\* await client.send_message(target, text) for a message without media.
SendText ==
    /\ pc = "sendtext"
    /\ \/ /\ out_chat' = Append(out_chat, cur)
          /\ pc' = "sent_text"
          /\ UNCHANGED <<cur, depth, skipped>>
       \/ /\ Return
          /\ skipped' = cur
          /\ UNCHANGED out_chat
    /\ UNCHANGED <<log, dump_vars, source, has_protected_content, extra_configs,
                   tie_order,
                   messages,
                   now, dirs, runNo, forward_messages, last_sent_message_id,
                   gen, err, lost, inserted, after_complete>>

SendTextRaise ==
    /\ pc = "sendtext"
    /\ \E e \in Errors : Raise(e)

\* client.send_message returned a Message: its row is inserted.
RecordText ==
    /\ pc = "sent_text"
    /\ Record
    /\ UNCHANGED <<skipped, log, dump_vars, source, has_protected_content, extra_configs,
                   tie_order,
                   dirs,
                   out_chat, runNo, forward_messages, last_sent_message_id,
                   gen, err, lost, after_complete>>

\* The process is killed.
Crash ==
    /\ pc \notin Stopped
    /\ Stop("crashed", NoError)
    /\ UNCHANGED <<skipped, log, dump_vars, source, has_protected_content, extra_configs,
                   tie_order,
                   messages,
                   now, dirs, out_chat, runNo>>

Next ==
    \/ StartRun
    \/ IterStart
    \/ IterNext
    \/ IterEnd
    \/ IterRaise
    \/ CopyMessage
    \/ CopyRaise
    \/ RecordCopied
    \/ DownloadMedia
    \/ DownloadRaise
    \/ SendMedia
    \/ SendMediaValueError
    \/ SendMediaRaise
    \/ CleanupAndRecord
    \/ CleanupUnsent
    \/ SendText
    \/ SendTextRaise
    \/ RecordText
    \/ Crash

Spec == Init /\ [][Next]_vars

\* ------------------------------------------------- DumpChat (an archive)
\* "select value from meta where name = 'chat_id'" and fetchone(): the value
\* of the first row, as a str.
stored_chat_id(rows) == rows[1].value

\* The chat id that __get_chat_id settles on: the one handed in if there
\* is one, else the stored one, else 0.
get_chat_id(rows, represents_chat_id) ==
    IF represents_chat_id # 0 THEN IntId(represents_chat_id)
    ELSE IF rows # <<>> THEN stored_chat_id(rows)
    ELSE IntId(0)

\* "insert or replace into meta (name, value) values ('chat_id', ?)": the
\* table has the primary key id and no unique name, so nothing is replaced.
insert_or_replace_meta(rows, v) ==
    Append(rows, [name |-> "chat_id", value |-> StrId(v)])

\* DumpChat.__init__, as get_target calls it in a clone run: the store is
\* opened, __get_chat_id settles and writes the chat id, and
\* get_friendly_chat_name calls asyncio.run inside the running loop, which
\* raises RuntimeError.
DumpChat(represents_chat_id) ==
    /\ chat_id' = get_chat_id(meta, represents_chat_id)
    /\ meta' = insert_or_replace_meta(meta, get_chat_id(meta, represents_chat_id))
    /\ dump_err' = "RuntimeError"
    /\ UNCHANGED <<source, has_protected_content, extra_configs, messages,
                   tie_order, now, dirs, out_chat, pc, runNo,
                   forward_messages, last_sent_message_id, gen, cur, depth,
                   err, lost, inserted, after_complete, log, skipped>>

\* __get_targets with the archive as --input: no chat id is handed in.
OpenAsInput ==
    /\ Len(meta) < MaxOpens
    /\ DumpChat(0)

\* __get_targets with the archive as --output: represents_chat_id is the id
\* of the input chat.
OpenAsOutput ==
    /\ Len(meta) < MaxOpens
    /\ \E input_id \in 1..MaxChats : DumpChat(input_id)

ArchiveNext ==
    \/ OpenAsInput
    \/ OpenAsOutput

ArchiveSpec == Init /\ [][ArchiveNext]_vars

\* ------------------------------------------- a store used for two outputs
\* Another chat that the input was cloned to before.
OtherId == "other"

\* The rows of a clone of the source chat src to OtherId that got through
\* its first k messages, one a second: they are in the store
\* chats/<input>/dump.db, which every clone of the input uses whatever its
\* output.
RowsToOther(src, k) ==
    LET ids == Ascending({m \in MsgIds : src[m] # "service"}, 0)
    IN  [i \in 1..k |->
            [input_chat_id |-> InputId, input_message_id |-> ids[i],
             output_chat_id |-> OtherId, output_message_id |-> i,
             added_at |-> i]]

\* The program is started for InputId and OutputId after such a clone.
ScopeInit ==
    /\ source \in Sources
    /\ has_protected_content \in BOOLEAN
    /\ extra_configs \in Configs
    /\ \E k \in 1..Cardinality({m \in MsgIds : source[m] # "service"}) :
          messages = RowsToOther(source, k)
    /\ tie_order \in {"first", "last"}
    /\ now = Len(messages) + 1
    /\ dirs = {}
    /\ out_chat = <<>>
    /\ pc = "idle"
    /\ runNo = 0
    /\ forward_messages = FALSE
    /\ last_sent_message_id = 0
    /\ gen = <<>>
    /\ cur = 0
    /\ depth = 0
    /\ err = NoError
    /\ lost = 0
    /\ inserted = <<>>
    /\ after_complete = FALSE
    /\ log = NoLog
    /\ skipped = 0
    /\ meta = <<>>
    /\ chat_id = IntId(0)
    /\ dump_err = "none"

ScopeSpec == ScopeInit /\ [][Next]_vars

\* ------------------------------------------------------------------ claims

\* C1 (idempotent resume): a run that follows a run which finished its
\* sequence, with a row for every non-service message of the unchanged
\* source, inserts no row.
C1_IdempotentResume == after_complete => inserted = <<>>

\* C2 (one record per message): at every moment the table holds at most one
\* row per (input chat, output chat, source message), and a message this run
\* recorded has exactly one.
C2_OneRecordPerMessage ==
    \A m \in MsgIds :
        /\ Cardinality(RowsOf(m)) <= 1
        /\ m \in Range(inserted) => Cardinality(RowsOf(m)) = 1

\* C3 (no redelivery after commit): a message that has a committed row is
\* never inside send_message again.
C3_NoRedeliveryAfterCommit == pc \in InDelivery => ~HasRecord(cur)

\* C4 (at least once): the message that a crash left sent and without a row
\* is handed to send_message again by the next run: until then it is among
\* the messages the run has still to yield.
C4_AtLeastOnce ==
    (pc \notin Stopped \cup {"start"} /\ lost # 0) => lost \in Range(gen)

\* The run after such a crash has computed its resume point and sequence.
C4_Witness == pc = "iter" /\ lost # 0 /\ messages # <<>>

\* C5 (order, forward mode): with reverse_messages off, the source ids of
\* the rows a run inserts are strictly increasing in insertion order.
C5_ForwardOrder ==
    ~extra_configs.reverse_messages => StrictlyIncreasing(inserted)

\* A forward-mode run that has inserted two rows.
C5_Witness == ~extra_configs.reverse_messages /\ Len(inserted) >= 2

\* C6 (order, reverse mode): with reverse_messages on, the source ids of the
\* rows a run inserts are strictly decreasing in insertion order, and all of
\* them are above the resume point the run started from.
C6_ReverseOrder ==
    extra_configs.reverse_messages =>
        /\ StrictlyDecreasing(inserted)
        /\ \A i \in DOMAIN inserted : inserted[i] > last_sent_message_id

\* C7 (cleanup): whenever send_message leaves a message, by returning or by
\* an exception, the directory chats/<output>/<message id> does not exist.
C7_Cleanup ==
    [][(pc \in InDelivery /\ pc' \in {"iter", "aborted"}) => cur \notin dirs']_vars

\* C8 (media filter): a message whose media kind is not in media_types is
\* never downloaded, never copied or sent, and never gets a row.
C8_MediaFilter ==
    \A m \in MsgIds :
        (source[m] \in MediaKinds /\ source[m] \notin extra_configs.media_types)
            => /\ m \notin Range(out_chat)
               /\ ~HasRecord(m)
               /\ ~(cur = m /\ pc \in {"upload", "sent_media", "unsent_media"})

\* C9 (text filter): with send_text_messages off, a message without media is
\* never copied or sent, and never gets a row.
C9_TextFilter ==
    ~extra_configs.send_text_messages =>
        \A m \in MsgIds :
            source[m] = "text" => m \notin Range(out_chat) /\ ~HasRecord(m)

\* C10 (rate-limit recovery): a FloodWait raised by a send (copy_message,
\* send_<media_type>, send_message) does not end the run: the same message is
\* attempted again.
C10_RateLimitRecovery ==
    ~(/\ pc = "aborted"
      /\ err.type = "FloodWait"
      /\ err.during \in {"copy", "upload", "sendtext"})

\* C11 (forward denied fallback): a "not permitted" error of copy_message
\* does not leave send_message: the same delivery goes on to the download
\* and upload, or to the text send, and the run is not ended by the error.
C11_ForwardDeniedFallback ==
    ~(pc = "aborted" /\ err.type = "Forbidden" /\ err.during = "copy")

\* The forward flag is set and the source chat has no protected content.
ForwardPermitted == extra_configs.forward_messages /\ ~has_protected_content

\* The positions of send_message past the copy branch.
RecreateStates == {"download", "upload", "sent_media", "unsent_media",
                   "sendtext", "sent_text"}

\* C12 (forward path): with the forward flag set and a source chat that
\* permits it, every message that enters send_message goes to copy_message
\* and nothing is sent otherwise; send_message returning after a copy that
\* gave a Message has inserted exactly one row, for that message and that
\* copy, and rows come from nowhere else; no directory is made and no
\* download is started.
C12_ForwardPath ==
    [][ForwardPermitted =>
          /\ pc' \notin RecreateStates
          /\ (pc \notin InDelivery /\ pc' \in InDelivery) => pc' = "copy"
          /\ out_chat' # out_chat => pc = "copy"
          /\ dirs' = {}
          /\ (pc = "copied" /\ pc' = "iter") =>
                 /\ Len(messages') = Len(messages) + 1
                 /\ SubSeq(messages', 1, Len(messages)) = messages
                 /\ messages'[Len(messages')].input_message_id = cur
                 /\ messages'[Len(messages')].output_message_id = Len(out_chat)
                 /\ out_chat[Len(out_chat)] = cur
          /\ ~(pc = "copied" /\ pc' = "iter") => messages' = messages]_vars

\* A run on the forward path has copied and recorded a text message and a
\* media message.
C12_Witness ==
    /\ ForwardPermitted
    /\ \E a, b \in Range(inserted) :
          source[a] = "text" /\ source[b] \in MediaKinds
    /\ dirs = {}

\* C13 (content protection): when the source chat has protected content,
\* can_forward is false for every message whatever the forward flag, and
\* copy_message is never called; a media message is sent by the upload only,
\* the upload follows the download of the same message, with the directory
\* of the message in place, and send_message returning after an upload that
\* gave a Message has removed the directory and inserted exactly one row for
\* the message.
C13_ContentProtection ==
    [][has_protected_content =>
          /\ ~forward_messages'
          /\ pc' \notin {"copy", "copied"}
          /\ (pc' = "download" \/ pc' = "upload") => cur' \in dirs'
          /\ (pc' = "upload" /\ pc # "upload") =>
                 pc = "download" /\ cur' = cur
          /\ (out_chat' # out_chat /\ source[cur] \in MediaKinds) =>
                 pc = "upload" /\ pc' = "sent_media"
          /\ (pc = "sent_media" /\ pc' = "iter") =>
                 /\ cur \notin dirs'
                 /\ Len(messages') = Len(messages) + 1
                 /\ SubSeq(messages', 1, Len(messages)) = messages
                 /\ messages'[Len(messages')].input_message_id = cur
                 /\ messages'[Len(messages')].output_message_id = Len(out_chat)]_vars

\* With the forward flag set on a protected chat, a media message has been
\* uploaded and recorded and its directory is gone.
C13_Witness ==
    /\ has_protected_content
    /\ extra_configs.forward_messages
    /\ \E m \in Range(inserted) :
          source[m] \in MediaKinds /\ m \notin dirs /\ m \in Range(out_chat)

C15_TransientSendError == depth = 0

\* C16 (error containment): an error raised inside send_message (by
\* copy_message, download_media, send_<media_type> or send_message of the
\* client) that is neither a rate limit nor a refusal to forward does not
\* end the run.
C16_ErrorContainment ==
    ~(/\ pc = "aborted"
      /\ err.during \in InDelivery
      /\ err.type \in {"RPCError", "ValueError"})

\* The client has answered the send of cur with a Message.
Sent == {"copied", "sent_media", "sent_text"}

\* The sends (positions in the destination chat) that no row refers to.
Unrecorded ==
    {i \in DOMAIN out_chat :
        ~\E k \in DOMAIN messages : messages[k].output_message_id = i}

\* C17 (commit before next): a send that the client answered with a Message
\* (copy, upload or text) is followed, as the next step of the process, by
\* the insert of exactly one row for that message and that send, and only
\* then is the process back at the loop; the sequence does not advance in
\* between.  (Only the process being killed comes between send and insert.)
C17_CommitBeforeNext ==
    [][/\ out_chat' # out_chat =>
             /\ pc' \in Sent
             /\ out_chat' = Append(out_chat, cur)
             /\ Unrecorded' = Unrecorded \cup {Len(out_chat')}
       /\ (pc \in Sent /\ pc' # "crashed") =>
             /\ pc' = "iter"
             /\ gen' = gen
             /\ Len(out_chat) \in Unrecorded
             /\ Unrecorded' = Unrecorded \ {Len(out_chat)}
             /\ Len(messages') = Len(messages) + 1
             /\ SubSeq(messages', 1, Len(messages)) = messages
             /\ messages'[Len(messages')].input_message_id = cur
       /\ (pc' = "iter" /\ pc \notin Sent) => Unrecorded' = Unrecorded
       /\ (gen' # gen /\ pc' \notin Stopped) => pc \in {"start", "iter"}]_vars

\* A run without forwarding has sent and recorded two messages, every send
\* has its row, and the loop is about to take the next message.
C17_Witness ==
    /\ pc = "iter"
    /\ gen # <<>>
    /\ Len(inserted) >= 2
    /\ Unrecorded = {}
    /\ ~extra_configs.forward_messages

\* C18 (append-only, success-only): every step leaves the rows that exist as
\* they are and in place; a step that adds anything adds one row, at the end,
\* for the message whose send the client has just answered with a Message,
\* and the row refers to that send.
C18_AppendOnly ==
    [][/\ Len(messages') >= Len(messages)
       /\ SubSeq(messages', 1, Len(messages)) = messages
       /\ messages' # messages =>
             /\ pc \in Sent
             /\ Len(messages') = Len(messages) + 1
             /\ LET r == messages'[Len(messages')]
                IN  /\ r.input_message_id = cur
                    /\ r.output_message_id \in DOMAIN out_chat
                    /\ out_chat[r.output_message_id] = cur]_vars

\* In its second run the program has added a second row for a message that
\* already had one; both rows are in the table.
C18_Witness ==
    /\ runNo = 2
    /\ inserted # <<>>
    /\ \E m \in Range(inserted) : Cardinality(RowsOf(m)) = 2

\* C19 (throttling): after a send that the client answered with a Message,
\* the process is in the pause of _random_sleep ("pause") before it is back
\* at the loop: it never goes from the send and its insert straight to the
\* next message.
C19_Throttling ==
    [][(pc \in Sent) => (pc' \in {"pause", "crashed"})]_vars

\* C20 (skipped messages are not remembered): a message that an earlier run
\* passed over, or returned from send_message for without sending, and that
\* has no row, is in the sequence that a later run goes through, whatever
\* the rows inserted after it was skipped.
C20_SkippedNotRemembered ==
    [][(pc = "start" /\ pc' = "iter" /\ skipped # 0 /\ ~HasRecord(skipped)) =>
          skipped \in Range(gen')]_vars

\* C21 (single in-flight message): send_message is entered for a message
\* only from the loop, with no message in send_message; and as long as the
\* process is in send_message it is there for the same message and the
\* sequence does not advance.
C21_SingleInFlight ==
    [][/\ (pc' \in InDelivery /\ cur' # cur) =>
             pc = "iter" /\ cur = 0
       /\ (pc \in InDelivery /\ pc' \in InDelivery) =>
             cur' = cur /\ gen' = gen
       /\ pc' \in InDelivery <=> cur' # 0]_vars

\* The second delivery of a run is under way after the first has ended with
\* its row.
C21_Witness == pc \in InDelivery /\ inserted # <<>> /\ cur \notin Range(inserted)

\* C22 (configuration error at startup): when TgChat.create finds that the
\* user is not a member of the input or the output chat, the run is over at
\* once, with the ValueError: no sequence is made, no message is in
\* send_message, and the table, the destination chat and the directories are
\* as they were before the start.
C22_ConfigurationError ==
    [][(pc \in Stopped /\ err'.during = "create") =>
          /\ pc' = "aborted"
          /\ err'.type = "ValueError"
          /\ gen' = <<>>
          /\ cur' = 0
          /\ inserted' = <<>>
          /\ messages' = messages
          /\ out_chat' = out_chat
          /\ dirs' = dirs]_vars

\* After a run that recorded messages, the second start has ended in
\* TgChat.create.
C22_Witness ==
    /\ pc = "aborted"
    /\ err.during = "create"
    /\ runNo = 2
    /\ messages # <<>>

\* C23 (no silent drops): every step by which a message that was read is
\* left undelivered (iter_messages passing over it, or send_message
\* returning for it without a send) makes a call of logging.warning or
\* logging.error for that message.
C23_NoSilentDrops ==
    [][(\/ pc = "iter" /\ pc' = "iter" /\ gen' # gen
        \/ pc \in {"copy", "download", "unsent_media", "sendtext"} /\ pc' = "iter")
          => /\ log'.level \in {"WARNING", "ERROR"}
             /\ log'.about = skipped']_vars

\* C24 (archive chat id is fixed once set): an opening of an archive whose
\* metadata holds a chat id other than 0 leaves the archive with that chat
\* id: the DumpChat works with it, and it is what the metadata gives
\* afterwards.
C24_ChatIdFixed ==
    [][(meta # <<>> /\ stored_chat_id(meta).id # 0) =>
          /\ chat_id'.id = stored_chat_id(meta).id
          /\ stored_chat_id(meta').id = stored_chat_id(meta).id]_vars

\* C25 (archive sink delivery): a clone run whose destination is an archive
\* comes to hand its messages to the archive: the opening of the archive as
\* --output (with the chat id of the input) ends without an exception.
C25_ArchiveSink ==
    [][(meta' # meta /\ chat_id'.type = "int" /\ chat_id'.id # 0) =>
          dump_err' = "none"]_vars

\* C26 (resume point recency): the resume point that iter_messages computes
\* is the input_message_id of the row inserted last (0 when the table is
\* empty), also when several rows have the same added_at.
C26_ResumeRecency ==
    [][(pc = "start" /\ pc' = "iter") =>
          last_sent_message_id' =
              IF messages = <<>> THEN 0
              ELSE messages[Len(messages)].input_message_id]_vars

\* The rows of the pair (InputId, OutputId).
PairRows ==
    {i \in DOMAIN messages :
        /\ messages[i].input_chat_id = InputId
        /\ messages[i].output_chat_id = OutputId}

\* C27 (resume point scoping): the resume point of a run from InputId to
\* OutputId comes from the rows of that pair only: it is 0 when the pair has
\* no row, and else the input_message_id of one of its rows with the newest
\* added_at, whatever rows of the input and another output the store holds.
C27_ResumeScoping ==
    [][(pc = "start" /\ pc' = "iter") =>
          IF PairRows = {} THEN last_sent_message_id' = 0
          ELSE \E i \in PairRows :
                  /\ \A j \in PairRows :
                        messages[j].added_at <= messages[i].added_at
                  /\ last_sent_message_id' =
                         messages[i].input_message_id]_vars

\* C28 (archive metadata has one row per key): the table meta of an archive
\* holds at most one row with name 'chat_id'.
C28_MetaOneRow ==
    Cardinality({i \in DOMAIN meta : meta[i].name = "chat_id"}) <= 1

\* The keyword arguments of the call send_<media_type>(target, f, **kwargs).
send_kwargs(media_type) ==
    {"caption", "progress"}
        \cup (IF media_type \notin {"photo", "audio", "sticker"}
              THEN {"file_name"} ELSE {})

\* C29 (sticker caption): the call send_<media_type> that send_message makes
\* for a sticker carries no caption, and the call for any other kind of
\* media carries one.
C29_StickerCaption ==
    pc = "upload" =>
        ("caption" \in send_kwargs(source[cur]) <=> source[cur] # "sticker")

C31_RetryRecordsOnce ==
    [][(depth >= 1 \/ depth' >= 1) =>
          /\ pc' \in InDelivery => messages' = messages /\ cur' = cur
          /\ out_chat' # out_chat =>
                 /\ pc' = "sent_media"
                 /\ out_chat' = Append(out_chat, cur)
          /\ (pc = "sent_media" /\ pc' = "iter") =>
                 /\ cur \notin dirs'
                 /\ Len(messages') = Len(messages) + 1
                 /\ SubSeq(messages', 1, Len(messages)) = messages
                 /\ messages'[Len(messages')].input_message_id = cur
                 /\ out_chat[messages'[Len(messages')].output_message_id] = cur]_vars

\* A message whose upload raised ValueError has been sent by the nested
\* call: it has its row from this run, and its directory is gone.
C31_Witness ==
    \E m \in MsgIds :
        /\ log = Logged("WARNING", m)
        /\ pc = "iter"
        /\ m \in Range(inserted)
        /\ m \in Range(out_chat)
        /\ m \notin dirs

\* C32 (completeness): when a run reaches the end of its sequence having
\* inserted a row for every non-service message above the resume point it
\* started from (no message was left unsent), then every such message has
\* exactly one row in the table, and no service message has any.
C32_Completeness ==
    [][(/\ pc = "iter"
        /\ pc' = "done"
        /\ \A m \in MsgIds :
              (source[m] # "service" /\ m > last_sent_message_id)
                  => m \in Range(inserted))
          => \A m \in MsgIds :
                IF source[m] = "service" THEN RowsOf(m) = {}
                ELSE m > last_sent_message_id
                         => Cardinality(RowsOf(m)) = 1]_vars

====
